---- MODULE Spec2Model ----
(***************************************************************************)
(* A model of tools/config.py: the module-level configuration globals,    *)
(* parse_config_file with normalize_config_settings, generate_config and   *)
(* the import-time search for the configuration file.                      *)
(*                                                                         *)
(* Python values are modelled with their identity: a list is a reference   *)
(* into a heap of list objects, because `new_spidermonkey += ['-w']`       *)
(* changes a list object in place and every name bound to that object      *)
(* sees the change.  A string is the sequence of its characters.           *)
(***************************************************************************)
EXTENDS Integers, Sequences, FiniteSets, TLC

VARIABLES
  environ,      \* os.environ: the EM_<KEY> overrides and the plain variables
  writable,     \* what os.access(__rootpath__, os.W_OK) answers
  G,            \* the module globals NODE_JS ... COMPILER_WRAPPER
  heap,         \* the list objects the globals can reach
  pc,           \* where the process stands
  normalized,   \* normalize_config_settings was entered in the last run
  runs,         \* calls of parse_config_file made so far, in all processes
  calls,        \* calls of parse_config_file made by this process
  first,        \* the outcome of the first call: its pc and its globals by value
  cmdline,      \* the command line the process was started with
  argv,         \* sys.argv
  fs,           \* the files that exist, each with its text: the assignments
  found,        \* what which('llvm-dis') and which('node') find
  EM_CONFIG,    \* the module global EM_CONFIG
  parent,       \* how many processes spawned this one, and the last's EM_CONFIG
  genRuns       \* processes started with --generate-config so far

vars == <<environ, writable, G, heap, pc, normalized, runs, calls, first,
          cmdline, argv, fs, found, EM_CONFIG, parent, genRuns>>


----------------------------------------------------------------------------
(* Bounds *)

\* calls of parse_config_file followed in one behaviour
MaxRuns == 2
\* processes started with --generate-config in one behaviour
MaxGenRuns == 2
\* generations of child processes followed in one behaviour
MaxDepth == 1

----------------------------------------------------------------------------
(* Python values *)

\* A value as a name holds it: a list is the identity of a heap object.
None == [t |-> "none", s |-> <<>>, b |-> FALSE, id |-> 0]
Str(cs) == [t |-> "str", s |-> cs, b |-> FALSE, id |-> 0]
Bool(x) == [t |-> "bool", s |-> <<>>, b |-> x, id |-> 0]
Ref(i) == [t |-> "list", s |-> <<>>, b |-> FALSE, id |-> i]

\* A value by content, as `==` and a reader of the configuration see it.
DNone == [t |-> "none", s |-> <<>>, b |-> FALSE, items |-> <<>>]
DStr(cs) == [t |-> "str", s |-> cs, b |-> FALSE, items |-> <<>>]
DBool(x) == [t |-> "bool", s |-> <<>>, b |-> x, items |-> <<>>]
DList(xs) == [t |-> "list", s |-> <<>>, b |-> FALSE, items |-> xs]
\* In the text of a source: the name of a variable bound earlier in it.
DName(k) == [t |-> "name", s |-> <<k>>, b |-> FALSE, items |-> <<>>]
\* A key the source does not bind.
Unbound == [t |-> "unbound", s |-> <<>>, b |-> FALSE, items |-> <<>>]

RECURSIVE Deep(_, _)
Deep(v, h) ==
  IF v.t = "list"
    THEN DList([i \in 1..Len(h[v.id]) |-> Deep(h[v.id][i], h)])
    ELSE [t |-> v.t, s |-> v.s, b |-> v.b, items |-> <<>>]

\* x == y on Python values: by content, never equal across types.
PyEq(x, y, h) == Deep(x, h) = Deep(y, h)

\* bool(x)
Truthy(v, h) ==
  CASE v.t = "none" -> FALSE
    [] v.t = "str"  -> v.s # <<>>
    [] v.t = "bool" -> v.b
    [] v.t = "list" -> h[v.id] # <<>>

\* sub in text, for strings
IsSubstring(sub, text) ==
  \E i \in 0..(Len(text) - Len(sub)) :
    \A j \in 1..Len(sub) : text[i + j] = sub[j]

DashW == <<"-", "w">>

\* '-w' in str(x): str of a list is the repr of its entries between
\* brackets, so the two characters can only lie inside one string.
RECURSIVE DashWInStr(_)
DashWInStr(d) ==
  CASE d.t = "str"  -> IsSubstring(DashW, d.s)
    [] d.t = "list" -> \E i \in 1..Len(d.items) : DashWInStr(d.items[i])
    [] OTHER        -> FALSE

\* The entries a `for x in v` visits; only lists and strings are iterable.
Iterable(v) == v.t \in {"list", "str"}
Entries(v, h) ==
  IF v.t = "list" THEN h[v.id]
  ELSE [i \in 1..Len(v.s) |-> Str(<<v.s[i]>>)]


----------------------------------------------------------------------------
(* Text atoms and paths *)

\* __rootpath__, two directories below the emsdk root
RootPath == <<"/", "s", "/", "u", "/", "r">>
\* the home directory `~` stands for
HomeDir == <<"/", "h">>
\* '.emscripten', 'cache', '.emscripten_cache' and 'ports', abbreviated
DotEmscripten == <<".", "e">>
CacheName == <<"c">>
HomeCacheName == <<".", "c">>
PortsName == <<"p">>

\* os.path.join(a, b) for a relative b
PathJoin(a, b) ==
  IF a = <<>> \/ a[Len(a)] = "/" THEN a \o b ELSE a \o <<"/">> \o b

\* utils.path_from_root(name)
path_from_root(name) == PathJoin(RootPath, name)

\* os.path.expanduser(p): a leading `~` alone or before `/` is the home
expanduser(p) ==
  IF p # <<>> /\ p[1] = "~" /\ (Len(p) = 1 \/ p[2] = "/")
    THEN HomeDir \o SubSeq(p, 2, Len(p))
    ELSE p

\* the index of the last "/" of p, 0 when there is none
LastSlash(p) ==
  LET at == {i \in 1..Len(p) : p[i] = "/"}
  IN IF at = {} THEN 0 ELSE CHOOSE i \in at : \A j \in at : j <= i

RECURSIVE StripSlashes(_)
StripSlashes(p) ==
  IF p # <<>> /\ p[Len(p)] = "/" THEN StripSlashes(SubSeq(p, 1, Len(p) - 1))
  ELSE p

\* os.path.dirname(p)
dirname(p) ==
  LET head == SubSeq(p, 1, LastSlash(p))
  IN IF head # <<>> /\ (\E i \in 1..Len(head) : head[i] # "/")
       THEN StripSlashes(head) ELSE head

----------------------------------------------------------------------------
(* The configuration keys and the module globals, lines 19-37 *)

CONFIG_KEYS ==
  << "NODE_JS", "BINARYEN_ROOT", "SPIDERMONKEY_ENGINE", "V8_ENGINE",
     "LLVM_ROOT", "LLVM_ADD_VERSION", "CLANG_ADD_VERSION", "CLOSURE_COMPILER",
     "JAVA", "JS_ENGINE", "JS_ENGINES", "WASMER", "WASMTIME", "WASM_ENGINES",
     "FROZEN_CACHE", "CACHE", "PORTS", "COMPILER_WRAPPER" >>

Keys == {CONFIG_KEYS[i] : i \in 1..Len(CONFIG_KEYS)}

MandatoryKeys == <<"LLVM_ROOT", "NODE_JS", "BINARYEN_ROOT">>

\* every global is None, but WASM_ENGINES = [] which is the first heap object
ModuleGlobals == [k \in Keys |-> IF k = "WASM_ENGINES" THEN Ref(1) ELSE None]
ModuleHeap == << <<>> >>

\* os.environ entries
Unset == [set |-> FALSE, s |-> <<>>]
Set(cs) == [set |-> TRUE, s |-> cs]

----------------------------------------------------------------------------
(* listify and fix_js_engine *)

\* Mutant: wraps a list once more.
listify_wraps_lists(x, h) ==
  IF x.t = "none" THEN [v |-> x, h |-> h]
  ELSE [v |-> Ref(Len(h) + 1), h |-> Append(h, <<x>>)]

\* listify(x): the value and the heap, which holds a new list [x] for a
\* scalar x
listify(x, h) ==
  IF x.t \in {"none", "list"} THEN [v |-> x, h |-> h]
  ELSE [v |-> Ref(Len(h) + 1), h |-> Append(h, <<x>>)]

\* [new if x == old else x for x in es], line 50
Replaced(es, old, new, h) ==
  [i \in 1..Len(es) |-> IF PyEq(es[i], old, h) THEN new ELSE es[i]]

\* fix_js_engine(old, new) on the state st = [g, h, err]: JS_ENGINES becomes
\* a new list; the result carries the returned value in v.
fix_js_engine(old, new, st) ==
  IF old.t = "none" THEN [v |-> None, g |-> st.g, h |-> st.h, err |-> st.err]
  ELSE IF ~Iterable(st.g["JS_ENGINES"])
    THEN [v |-> None, g |-> st.g, h |-> st.h, err |-> "crash"]
  ELSE [v |-> new,
        g |-> [st.g EXCEPT !["JS_ENGINES"] = Ref(Len(st.h) + 1)],
        h |-> Append(st.h,
                     Replaced(Entries(st.g["JS_ENGINES"], st.h), old, new, st.h)),
        err |-> st.err]

\* G[key] = r, for the result r of a call that may have raised
AssignResult(key, r) ==
  IF r.err # "" THEN [g |-> r.g, h |-> r.h, err |-> r.err]
  ELSE [g |-> [r.g EXCEPT ![key] = r.v], h |-> r.h, err |-> ""]

FixWith(key, l, st) ==
  AssignResult(key, fix_js_engine(st.g[key], l.v,
                                  [g |-> st.g, h |-> l.h, err |-> st.err]))

\* G[key] = fix_js_engine(G[key], listify(G[key])), lines 74-76
FixListified(key, st) == FixWith(key, listify(st.g[key], st.h), st)

PrependTo(v, rest) == [vs |-> <<v>> \o rest.vs, h |-> rest.h]

\* [listify(e) for e in es], with the heap the new lists live in
RECURSIVE ListifyAll(_, _)
RECURSIVE ListifyRest(_, _)
ListifyAll(es, h) ==
  IF es = <<>> THEN [vs |-> <<>>, h |-> h]
  ELSE ListifyRest(listify(es[1], h), es)
ListifyRest(l, es) == PrependTo(l.v, ListifyAll(Tail(es), l.h))

ListOf(key, r, st) ==
  [g |-> [st.g EXCEPT ![key] = Ref(Len(r.h) + 1)],
   h |-> Append(r.h, r.vs),
   err |-> st.err]

\* G[key] = [listify(e) for e in G[key]], lines 77-78
ListifyEntries(key, st) ==
  IF ~Iterable(st.g[key]) THEN [st EXCEPT !.err = "crash"]
  ELSE ListOf(key, ListifyAll(Entries(st.g[key], st.h), st.h), st)

----------------------------------------------------------------------------
(* normalize_config_settings, lines 58-99 *)

\* x[0] of a non-empty list or string; anything else has no subscript
Subscriptable(v) == v.t \in {"list", "str"}

\* lines 63-64
DeriveJsEngines(st) ==
  IF Truthy(st.g["JS_ENGINES"], st.h) THEN st
  ELSE [g |-> [st.g EXCEPT !["JS_ENGINES"] = Ref(Len(st.h) + 1)],
        h |-> Append(st.h, <<st.g["NODE_JS"]>>),
        err |-> ""]

\* lines 65-66
DeriveJsEngine(st) ==
  IF Truthy(st.g["JS_ENGINE"], st.h) THEN st
  ELSE IF ~Subscriptable(st.g["JS_ENGINES"]) THEN [st EXCEPT !.err = "crash"]
  ELSE [st EXCEPT !.g["JS_ENGINE"] = Entries(st.g["JS_ENGINES"], st.h)[1]]

\* new_spidermonkey += ['-w'], line 72: the list object sm names, extended
\* in place
AppendFlag(sm, h) == [h EXCEPT ![sm.id] = Append(@, Str(DashW))]

\* lines 69-73 for a non-empty SPIDERMONKEY_ENGINE sm whose str() has '-w'
\* (flagged) or not: `+=` raises TypeError on a string or a flag; old and
\* new are one object.
TweakSpidermonkey(sm, flagged, st) ==
  IF ~flagged /\ sm.t # "list" THEN [st EXCEPT !.err = "crash"]
  ELSE AssignResult("SPIDERMONKEY_ENGINE",
         fix_js_engine(sm, sm,
           [g |-> st.g,
            h |-> IF flagged THEN st.h ELSE AppendFlag(sm, st.h),
            err |-> ""]))

\* lines 69-73
SpidermonkeyTweak(st) ==
  IF ~Truthy(st.g["SPIDERMONKEY_ENGINE"], st.h) THEN st
  ELSE TweakSpidermonkey(st.g["SPIDERMONKEY_ENGINE"],
                         DashWInStr(Deep(st.g["SPIDERMONKEY_ENGINE"], st.h)),
                         st)

\* line 79
ListifyClosure(l, st) ==
  [g |-> [st.g EXCEPT !["CLOSURE_COMPILER"] = l.v], h |-> l.h, err |-> ""]

\* lines 80-90: the cache directory when CACHE is unset or empty
DefaultCache(st, w) ==
  IF Truthy(st.g["FROZEN_CACHE"], st.h) \/ w
    THEN Str(path_from_root(CacheName))
    ELSE Str(expanduser(PathJoin(<<"~">>, HomeCacheName)))

\* lines 80-90
DeriveCache(st, w) ==
  IF Truthy(st.g["CACHE"], st.h) THEN st
  ELSE [st EXCEPT !.g["CACHE"] = DefaultCache(st, w)]

\* lines 91-92; os.path.join raises TypeError on a CACHE that is no string
DerivePorts(st) ==
  IF Truthy(st.g["PORTS"], st.h) THEN st
  ELSE IF st.g["CACHE"].t # "str" THEN [st EXCEPT !.err = "crash"]
  ELSE [st EXCEPT !.g["PORTS"] = Str(PathJoin(st.g["CACHE"].s, PortsName))]

\* os.getenv(name)
getenv(e) == IF e.set THEN Str(e.s) ELSE None

\* lines 95-99
DeriveVersions(st, env) ==
  [st EXCEPT
     !.g["LLVM_ADD_VERSION"] =
        IF @.t = "none" THEN getenv(env.LLVM_ADD_VERSION) ELSE @,
     !.g["CLANG_ADD_VERSION"] =
        IF @.t = "none" THEN getenv(env.CLANG_ADD_VERSION) ELSE @]

\* the statements of normalize_config_settings, in order
NormalizeSteps ==
  << "JS_ENGINES", "JS_ENGINE", "spidermonkey", "NODE_JS", "V8_ENGINE",
     "fix JS_ENGINE", "listify JS_ENGINES", "WASM_ENGINES",
     "CLOSURE_COMPILER", "CACHE", "PORTS", "versions" >>

Statement(name, st, env, w) ==
  CASE name = "JS_ENGINES"         -> DeriveJsEngines(st)
    [] name = "JS_ENGINE"          -> DeriveJsEngine(st)
    [] name = "spidermonkey"       -> SpidermonkeyTweak(st)
    [] name \in {"NODE_JS", "V8_ENGINE"} -> FixListified(name, st)
    [] name = "fix JS_ENGINE"      -> FixListified("JS_ENGINE", st)
    [] name = "listify JS_ENGINES" -> ListifyEntries("JS_ENGINES", st)
    [] name = "WASM_ENGINES"       -> ListifyEntries("WASM_ENGINES", st)
    [] name = "CLOSURE_COMPILER"   ->
         ListifyClosure(listify(st.g["CLOSURE_COMPILER"], st.h), st)
    [] name = "CACHE"              -> DeriveCache(st, w)
    [] name = "PORTS"              -> DerivePorts(st)
    [] name = "versions"           -> DeriveVersions(st, env)

\* the statements from the i-th on; an exception ends the function
RECURSIVE RunFrom(_, _, _, _)
RunFrom(i, st, env, w) ==
  IF i > Len(NormalizeSteps) \/ st.err # "" THEN st
  ELSE RunFrom(i + 1, Statement(NormalizeSteps[i], st, env, w), env, w)

normalize_config_settings(g, h, env, w) ==
  RunFrom(1, [g |-> g, h |-> h, err |-> ""], env, w)

----------------------------------------------------------------------------
(* parse_config_file, lines 102-169 *)

\* a name the namespace of exec does not hold
NotInConfig == [t |-> "unbound", s |-> <<>>, b |-> FALSE, id |-> 0]

EvalResult(v, h, ok) == [v |-> v, h |-> h, ok |-> ok]
ListResult(r) == EvalResult(Ref(Len(r.h) + 1), Append(r.h, r.vs), r.ok)
ItemsResult(x, rest) ==
  [vs |-> <<x.v>> \o rest.vs, h |-> rest.h, ok |-> x.ok /\ rest.ok]

\* An expression of the source evaluated in the namespace ns: a literal
\* makes new objects, a name gives the object it is bound to (NameError when
\* it is not bound).
RECURSIVE Eval(_, _, _)
RECURSIVE EvalItems(_, _, _)
RECURSIVE EvalRest(_, _, _)
Eval(e, ns, h) ==
  CASE e.t = "name" ->
         IF ns[e.s[1]].t = "unbound" THEN EvalResult(None, h, FALSE)
         ELSE EvalResult(ns[e.s[1]], h, TRUE)
    [] e.t = "list" -> ListResult(EvalItems(e.items, ns, h))
    [] OTHER ->
         EvalResult([t |-> e.t, s |-> e.s, b |-> e.b, id |-> 0], h, TRUE)
EvalItems(es, ns, h) ==
  IF es = <<>> THEN [vs |-> <<>>, h |-> h, ok |-> TRUE]
  ELSE EvalRest(Eval(es[1], ns, h), es, ns)
EvalRest(x, es, ns) == ItemsResult(x, EvalItems(Tail(es), ns, x.h))

\* exec(config_text, config), lines 107-112: the assignments in order, into
\* a fresh namespace; ok is FALSE when one of them raises.
RECURSIVE ExecFrom(_, _, _)
RECURSIVE ExecRest(_, _, _)
ExecFrom(stmts, ns, h) ==
  IF stmts = <<>> THEN [ns |-> ns, h |-> h, ok |-> TRUE]
  ELSE ExecRest(Eval(stmts[1].e, ns, h), stmts, ns)
ExecRest(x, stmts, ns) ==
  IF ~x.ok THEN [ns |-> ns, h |-> x.h, ok |-> FALSE]
  ELSE ExecFrom(Tail(stmts), [ns EXCEPT ![stmts[1].key] = x.v], x.h)

\* the names a source may bind: the keys and one name that is no key
OtherName == "EMSCRIPTEN_ROOT"
Names == Keys \cup {OtherName}

Exec(stmts, h) == ExecFrom(stmts, [n \in Names |-> NotInConfig], h)

\* Mutant: an empty EM_<KEY> falls through to the value of the source.
Override_empty_falls_through(key, g, config, env) ==
  IF env.em[key].set /\ env.em[key].s # <<>> THEN Str(env.em[key].s)
  ELSE IF config[key].t # "unbound" THEN config[key]
  ELSE g[key]

\* lines 137-144 for one key: the value the global gets
Override(key, g, config, env) ==
  IF env.em[key].set
    THEN IF env.em[key].s = <<>> THEN None ELSE Str(env.em[key].s)
  ELSE IF config[key].t # "unbound" THEN config[key]
  ELSE g[key]

\* Mutant: a mandatory key may come from the environment alone.
MandatoryFails_ignores_source(key, g, h, config) == ~Truthy(g[key], h)

\* lines 161-164 for one key: exit_with_error is reached
MandatoryFails(key, g, h, config) ==
  config[key].t = "unbound" \/ ~Truthy(g[key], h)

\* How a call ends: out is "done" when it returns, "fatal" when
\* exit_with_error ends the process and "crash" when an exception leaves
\* normalize_config_settings.
Outcome(g, h, out, n) == [g |-> g, h |-> h, out |-> out, normalized |-> n]

Normalized(n) ==
  Outcome(n.g, n.h, IF n.err = "" THEN "done" ELSE "crash", TRUE)

\* lines 159-169, with the globals g1 the overrides have left
Validate(g1, x, env, w) ==
  IF \E i \in 1..Len(MandatoryKeys) :
       MandatoryFails(MandatoryKeys[i], g1, x.h, x.ns)
    THEN Outcome(g1, x.h, "fatal", FALSE)
    ELSE Normalized(normalize_config_settings(g1, x.h, env, w))

\* lines 114-169, with the result x of exec
AfterExec(x, g, env, w) ==
  IF ~x.ok THEN Outcome(g, x.h, "fatal", FALSE)
  ELSE Validate([k \in Keys |-> Override(k, g, x.ns, env)], x, env, w)

\* The call as a whole, from the globals g and the heap h.
parse_config_file(g, h, src, env, w) == AfterExec(Exec(src, h), g, env, w)

\* the globals by content
DeepG(g, h) == [k \in Keys |-> Deep(g[k], h)]

----------------
(* The search for the configuration file, lines 221-264 *)

\* '--em-config' and '--generate-config', abbreviated
EmConfigFlag == <<"-", "-", "e">>
GenerateConfigFlag == <<"-", "-", "g">>

\* line 221
embedded_config == path_from_root(DotEmscripten)
\* lines 234-235
emsdk_root == dirname(dirname(RootPath))
emsdk_embedded_config == PathJoin(emsdk_root, DotEmscripten)
\* line 236
user_home_config == expanduser(PathJoin(<<"~">>, DotEmscripten))

NoFile == [exists |-> FALSE, text |-> <<>>]
File(text) == [exists |-> TRUE, text |-> text]

\* os.path.exists(p)
Exists(files, p) == p \in DOMAIN files /\ files[p].exists

\* sys.argv.index(tok), counted from 1; 0 when tok is no argument
ArgIndex(av, tok) ==
  LET at == {i \in 1..Len(av) : av[i] = tok}
  IN IF at = {} THEN 0 ELSE CHOOSE i \in at : \A j \in at : i <= j

\* av without the arguments at i and i + 1, lines 242-243
WithoutPair(av, i) == SubSeq(av, 1, i - 1) \o SubSeq(av, i + 2, Len(av))

\* Mutant: the environment variable is looked at before the command line.
Candidate_env_first(av, env, files, w) ==
  IF env.EM_CONFIG.set THEN env.EM_CONFIG.s
  ELSE IF ArgIndex(av, EmConfigFlag) # 0 THEN av[ArgIndex(av, EmConfigFlag) + 1]
  ELSE IF Exists(files, embedded_config) THEN embedded_config
  ELSE IF Exists(files, emsdk_embedded_config) THEN emsdk_embedded_config
  ELSE IF Exists(files, user_home_config) THEN user_home_config
  ELSE IF w THEN embedded_config
  ELSE user_home_config

\* lines 238-258, once '--em-config' is known to have its argument
Candidate(av, env, files, w) ==
  IF ArgIndex(av, EmConfigFlag) # 0 THEN av[ArgIndex(av, EmConfigFlag) + 1]
  ELSE IF env.EM_CONFIG.set THEN env.EM_CONFIG.s
  ELSE IF Exists(files, embedded_config) THEN embedded_config
  ELSE IF Exists(files, emsdk_embedded_config) THEN emsdk_embedded_config
  ELSE IF Exists(files, user_home_config) THEN user_home_config
  ELSE IF w THEN embedded_config
  ELSE user_home_config

\* lines 260-264 for the candidate c, '--em-config' found at i (0: not)
Chosen(c, i, av) ==
  [pc |-> IF \E j \in 1..Len(c) : c[j] = "\n" THEN "fatal_inline" ELSE "located",
   path |-> IF \E j \in 1..Len(c) : c[j] = "\n" THEN c ELSE expanduser(c),
   argv |-> IF i # 0 THEN WithoutPair(av, i) ELSE av]

\* lines 238-264: where the process stands after them, its EM_CONFIG and
\* its sys.argv
locate(av, env, files, w) ==
  IF ArgIndex(av, EmConfigFlag) # 0 /\ Len(av) <= ArgIndex(av, EmConfigFlag)
    THEN [pc |-> "fatal_usage", path |-> <<>>, argv |-> av]
    ELSE Chosen(Candidate(av, env, files, w), ArgIndex(av, EmConfigFlag), av)

\* Mutant: the chosen path is not written to the environment.
export_nothing(env, path) == env

\* line 280
export(env, path) == [env EXCEPT !.EM_CONFIG = Set(path)]

----------------------------------------------------------------------------
(* generate_config, lines 172-191 *)

\* the fallbacks of lines 184 and 187: '/usr/bin/llvm-dis' and 'node'
DefaultLlvmDis == <<"/", "b", "/", "d">>
DefaultNode == <<"n">>

\* lines 179-188: the text written, as far as the three placeholders go
config_data(fnd) ==
  << [key |-> OtherName, e |-> DStr(RootPath)],
     [key |-> "LLVM_ROOT",
      e |-> DStr(dirname(IF fnd.llvm_dis # <<>> THEN fnd.llvm_dis
                         ELSE DefaultLlvmDis))],
     [key |-> "NODE_JS",
      e |-> DStr(IF fnd.node # <<>> THEN fnd.node
                 ELSE IF fnd.nodejs # <<>> THEN fnd.nodejs
                 ELSE DefaultNode)] >>

\* Mutant: the file is written whether or not it exists.
generate_config_overwrites(path, files, fnd) ==
  [pc |-> "exit0", fs |-> [files EXCEPT ![path] = File(config_data(fnd))]]

\* generate_config(path) and the sys.exit(0) of line 270; the write raises
\* on a path no file can be made at
generate_config(path, files, fnd) ==
  IF Exists(files, path) THEN [pc |-> "fatal_conflict", fs |-> files]
  ELSE IF path \notin DOMAIN files THEN [pc |-> "crash", fs |-> files]
  ELSE [pc |-> "exit0", fs |-> [files EXCEPT ![path] = File(config_data(fnd))]]

----------------------------------------------------------------------------
(* The processes *)

NoFirst == [out |-> "", g |-> DeepG(ModuleGlobals, ModuleHeap)]
NoParent == [depth |-> 0, path |-> <<>>]

HasFlag(av, tok) == ArgIndex(av, tok) # 0

Located(r) == pc' = r.pc /\ EM_CONFIG' = r.path /\ argv' = r.argv

\* lines 238-264
Locate ==
  /\ pc = "start"
  /\ Located(locate(argv, environ, fs, writable))
  /\ UNCHANGED <<environ, writable, G, heap, normalized, runs, calls, first,
                 cmdline, fs, found, parent, genRuns>>

Generated(r) == pc' = r.pc /\ fs' = r.fs

\* lines 268-270
GenerateConfig ==
  /\ pc = "located"
  /\ HasFlag(argv, GenerateConfigFlag)
  /\ Generated(generate_config(EM_CONFIG, fs, found))
  /\ UNCHANGED <<environ, writable, G, heap, normalized, runs, calls, first,
                 cmdline, argv, found, EM_CONFIG, parent, genRuns>>

\* lines 272-280
Export ==
  /\ pc = "located"
  /\ ~HasFlag(argv, GenerateConfigFlag)
  /\ pc' = IF Exists(fs, EM_CONFIG) THEN "parse" ELSE "fatal_notfound"
  /\ environ' = IF Exists(fs, EM_CONFIG) THEN export(environ, EM_CONFIG)
                ELSE environ
  /\ UNCHANGED <<writable, G, heap, normalized, runs, calls, first,
                 cmdline, argv, fs, found, EM_CONFIG, parent, genRuns>>

Parsed(r) ==
  /\ G' = r.g
  /\ heap' = r.h
  /\ pc' = r.out
  /\ normalized' = r.normalized
  /\ first' = IF runs = 0 THEN [out |-> r.out, g |-> DeepG(r.g, r.h)]
              ELSE first

\* line 282, and any later call made by the same process
ParseConfigFile ==
  /\ pc \in {"parse", "done"}
  /\ runs < MaxRuns
  /\ Parsed(parse_config_file(G, heap, fs[EM_CONFIG].text, environ, writable))
  /\ runs' = runs + 1
  /\ calls' = calls + 1
  /\ UNCHANGED <<environ, writable, cmdline, argv, fs, found, EM_CONFIG,
                 parent, genRuns>>

\* lines 238-280 in one step
Imported(r) ==
  /\ pc' = IF r.pc # "located" THEN r.pc
           ELSE IF Exists(fs, r.path) THEN "parse" ELSE "fatal_notfound"
  /\ EM_CONFIG' = r.path
  /\ argv' = r.argv
  /\ environ' = IF r.pc = "located" /\ Exists(fs, r.path)
                  THEN export(environ, r.path) ELSE environ

\* The same command is run once more, in the same environment: a new
\* process imports the module, lines 19-37 and 221-280.
NewProcess ==
  /\ pc \in {"done", "fatal", "crash"}
  /\ runs < MaxRuns
  /\ Imported(locate(cmdline, environ, fs, writable))
  /\ G' = ModuleGlobals
  /\ heap' = ModuleHeap
  /\ normalized' = FALSE
  /\ calls' = 0
  /\ UNCHANGED <<writable, runs, first, cmdline, fs, found, parent, genRuns>>

\* the command lines of the child processes: none has '--em-config'
ChildArgvs == { <<<<"e">>>>, <<<<"e">>, <<"a">>>> }

\* The toolchain spawns a process that imports the module again; it
\* inherits os.environ.
SpawnChild ==
  /\ pc \in {"parse", "done"}
  /\ parent.depth < MaxDepth
  /\ \E av \in ChildArgvs : cmdline' = av /\ argv' = av
  /\ pc' = "start"
  /\ parent' = [depth |-> parent.depth + 1, path |-> EM_CONFIG]
  /\ EM_CONFIG' = <<>>
  /\ G' = ModuleGlobals
  /\ heap' = ModuleHeap
  /\ normalized' = FALSE
  /\ calls' = 0
  /\ UNCHANGED <<environ, writable, runs, first, fs, found, genRuns>>

\* what which() can answer for llvm-dis, node and nodejs
Founds ==
  { [llvm_dis |-> <<>>, node |-> <<>>, nodejs |-> <<>>],
    [llvm_dis |-> <<"/", "o", "/", "d">>, node |-> <<"/", "o", "/", "n">>,
     nodejs |-> <<>>],
    [llvm_dis |-> <<>>, node |-> <<>>, nodejs |-> <<"/", "o", "/", "j">>] }

\* The user runs the same `--generate-config` command once more; the
\* executables on the search path may have changed.
RunGeneratorAgain ==
  /\ pc \in {"exit0", "fatal_conflict"}
  /\ genRuns < MaxGenRuns
  /\ genRuns' = genRuns + 1
  /\ found' \in Founds
  /\ pc' = "start"
  /\ argv' = cmdline
  /\ EM_CONFIG' = <<>>
  /\ UNCHANGED <<environ, writable, G, heap, normalized, runs, calls, first,
                 cmdline, fs, parent>>

----------------------------------------------------------------------------
(* The sources and environments explored *)

\* an assignment `key = e` of a source; none when e is Unbound
Assign(key, e) == [key |-> key, e |-> e]
Stmts(assignments) == SelectSeq(assignments, LAMBDA a : a.e.t # "unbound")

dN == DStr(<<"n">>)
dJ == DStr(<<"j">>)
dD == DStr(<<"d">>)
dX == DStr(<<"x">>)
dLlvm == DStr(<<"/", "l">>)
dBinaryen == DStr(<<"/", "b">>)
dFlag == DStr(DashW)

\* what the data model allows a key to hold
DataValues ==
  { DNone, DStr(<<>>), dX, DList(<<dX>>), DList(<<DList(<<dX>>)>>),
    DBool(TRUE), DBool(FALSE) }

\* Sources that differ in the mandatory keys.
MandatorySources ==
  { Stmts(<< Assign("LLVM_ROOT", l), Assign("BINARYEN_ROOT", b),
             Assign("NODE_JS", n) >>) :
      l \in {Unbound, dLlvm},
      b \in {Unbound, dBinaryen, DStr(<<>>)},
      n \in {Unbound, DNone, DStr(<<>>), dN, DList(<<dN>>)} }

SpidermonkeyValues ==
  { Unbound,
    dJ,                                   \* 'j'
    DStr(<<"j", " ", "-", "w">>),         \* 'j -w'
    DList(<<dJ>>),                        \* ['j']
    DList(<<dJ, dFlag>>),                 \* ['j', '-w']
    DList(<<DStr(<<"j", "-", "w">>)>>),   \* ['j-w']
    DName("NODE_JS") }                    \* the object NODE_JS names

JsEnginesValues ==
  { Unbound,
    DList(<<DName("NODE_JS")>>),
    DList(<<DName("NODE_JS"), DName("SPIDERMONKEY_ENGINE")>>),
    DList(<<DList(<<dJ>>), DName("NODE_JS")>>),
    DList(<<dJ, dN>>),
    DStr(<<"n", "j">>),
    DBool(TRUE) }

\* Sources that differ in the engines.
EngineSources ==
  { Stmts(<< Assign("LLVM_ROOT", dLlvm), Assign("BINARYEN_ROOT", dBinaryen),
             Assign("NODE_JS", n), Assign("V8_ENGINE", v),
             Assign("SPIDERMONKEY_ENGINE", s), Assign("JS_ENGINES", js),
             Assign("JS_ENGINE", j) >>) :
      n \in {dN, DList(<<dN>>)},
      v \in {Unbound, dD, DName("NODE_JS")},
      s \in SpidermonkeyValues,
      js \in JsEnginesValues,
      j \in {Unbound, dJ} }

OtherKeys ==
  { "CACHE", "PORTS", "FROZEN_CACHE", "WASM_ENGINES", "CLOSURE_COMPILER",
    "COMPILER_WRAPPER", "JAVA", "WASMER", "WASMTIME", "LLVM_ADD_VERSION",
    "CLANG_ADD_VERSION", "V8_ENGINE", OtherName }

\* Sources that bind one more name to any value of the data model.
OtherSources ==
  { Stmts(<< Assign("LLVM_ROOT", dLlvm), Assign("BINARYEN_ROOT", dBinaryen),
             Assign("NODE_JS", dN), Assign(k, d) >>) :
      k \in OtherKeys, d \in DataValues }

NoOverrides ==
  [em |-> [k \in Keys |-> Unset], EM_CONFIG |-> Unset,
   LLVM_ADD_VERSION |-> Unset, CLANG_ADD_VERSION |-> Unset]

\* one EM_<KEY> at most, empty or not
OneOverride ==
  {NoOverrides} \cup
  { [NoOverrides EXCEPT !.em[k] = Set(cs)] : k \in Keys, cs \in {<<>>, <<"x">>} }

EngineOverrides ==
  {NoOverrides} \cup
  { [NoOverrides EXCEPT !.em[k] = Set(cs)] :
      k \in {"SPIDERMONKEY_ENGINE", "JS_ENGINES", "JS_ENGINE", "NODE_JS"},
      cs \in {<<>>, <<"j">>, <<"j", " ", "-", "w">>} }

\* the plain variables LLVM_ADD_VERSION and CLANG_ADD_VERSION
VersionVariables ==
  OneOverride \cup
  { [e EXCEPT !.LLVM_ADD_VERSION = Set(<<"9">>)] :
      e \in { NoOverrides,
              [NoOverrides EXCEPT !.em["LLVM_ADD_VERSION"] = Set(<<>>)],
              [NoOverrides EXCEPT !.CLANG_ADD_VERSION = Set(<<"8">>)] } }

\* the paths a file can be at
CustomArg == <<"/", "x">>
CustomEnv == <<"/", "y">>
TildePath == <<"~", "/", "z">>
AllPaths ==
  { embedded_config, emsdk_embedded_config, user_home_config,
    CustomArg, CustomEnv, expanduser(TildePath) }

Emcc == <<"e">>

\* the sources, each with the environments it is resolved in and whether
\* the root is writable, which only the cache directory depends on
Inputs ==
  (MandatorySources \X OneOverride \X BOOLEAN)
    \cup (EngineSources \X EngineOverrides \X {TRUE})
    \cup (OtherSources \X VersionVariables \X BOOLEAN)

\* Init of the processes that have found their file: line 280 is done.
InitParse ==
  /\ \E in \in Inputs :
       /\ fs = [p \in AllPaths |->
                  IF p = embedded_config THEN File(in[1]) ELSE NoFile]
       /\ environ = export(in[2], embedded_config)
       /\ writable = in[3]
  /\ G = ModuleGlobals
  /\ heap = ModuleHeap
  /\ pc = "parse"
  /\ normalized = FALSE
  /\ runs = 0
  /\ calls = 0
  /\ first = NoFirst
  /\ cmdline = <<Emcc>>
  /\ argv = <<Emcc>>
  /\ found = [llvm_dis |-> <<>>, node |-> <<>>, nodejs |-> <<>>]
  /\ EM_CONFIG = embedded_config
  /\ parent = NoParent
  /\ genRuns = 0

Next == ParseConfigFile \/ NewProcess

Spec == InitParse /\ [][Next]_vars

\* a source every file of the search starts with
GoodSource ==
  << Assign("LLVM_ROOT", dLlvm), Assign("BINARYEN_ROOT", dBinaryen),
     Assign("NODE_JS", dN) >>

NewlinePath == <<"/", "x", "\n">>

CommandLines ==
  { <<Emcc>>,
    <<Emcc, <<"a">>>>,
    <<Emcc, EmConfigFlag, CustomArg>>,
    <<Emcc, <<"a">>, EmConfigFlag, TildePath>>,
    <<Emcc, EmConfigFlag>>,
    <<Emcc, EmConfigFlag, NewlinePath>>,
    <<Emcc, GenerateConfigFlag>>,
    <<Emcc, EmConfigFlag, CustomArg, GenerateConfigFlag>> }

\* Init of the processes that start: nothing of lines 238-282 has run.
InitStart ==
  /\ cmdline \in CommandLines
  /\ argv = cmdline
  /\ \E e \in {Unset, Set(<<>>), Set(CustomEnv), Set(TildePath), Set(NewlinePath)} :
       environ = [NoOverrides EXCEPT !.EM_CONFIG = e]
  /\ fs \in [AllPaths -> {NoFile, File(GoodSource)}]
  /\ writable \in BOOLEAN
  /\ found = [llvm_dis |-> <<>>, node |-> <<>>, nodejs |-> <<>>]
  /\ G = ModuleGlobals
  /\ heap = ModuleHeap
  /\ pc = "start"
  /\ normalized = FALSE
  /\ runs = 0
  /\ calls = 0
  /\ first = NoFirst
  /\ EM_CONFIG = <<>>
  /\ parent = NoParent
  /\ genRuns = 0

NextLoc ==
  \/ Locate
  \/ GenerateConfig
  \/ Export
  \/ ParseConfigFile
  \/ SpawnChild
  \/ RunGeneratorAgain

SpecLoc == InitStart /\ [][NextLoc]_vars

----------------------------------------------------------------------------
(* What the claims speak of *)

\* the text of the configuration file in use
ConfigText == fs[EM_CONFIG].text

\* the source has an assignment to k
Binds(k) == \E i \in 1..Len(ConfigText) : ConfigText[i].key = k

\* the namespace evaluating the source gives, in a new process
Evaluated == Exec(ConfigText, ModuleHeap)

\* evaluating the source gives k a non-empty value
EvaluatedNonEmpty(k) ==
  Evaluated.ok /\ Binds(k) /\ Truthy(Evaluated.ns[k], Evaluated.h)

\* the globals of a new process once the overrides are applied, by content
Raw ==
  DeepG([k \in Keys |-> Override(k, ModuleGlobals, Evaluated.ns, environ)],
        Evaluated.h)

\* a call of parse_config_file has ended, one way or another
Finished == runs >= 1 /\ pc \in {"done", "fatal", "crash"}

Final(k) == Deep(G[k], heap)

----------------------------------------------------------------------------
(* C1 *)

\* every name the source binds holds a value of the data model, and the
\* three mandatory keys are bound to non-empty values
WellFormedSource ==
  /\ Evaluated.ok
  /\ \A i \in 1..Len(MandatoryKeys) : EvaluatedNonEmpty(MandatoryKeys[i])

NoOverride == \A k \in Keys : ~environ.em[k].set

\* rules 4-9 have filled JS_ENGINES, JS_ENGINE, CACHE and PORTS
Populated ==
  /\ G["JS_ENGINES"].t = "list" /\ Truthy(G["JS_ENGINES"], heap)
  /\ G["JS_ENGINE"].t # "none"
  /\ G["CACHE"].t = "str" /\ G["CACHE"].s # <<>>
  /\ G["PORTS"].t = "str" /\ G["PORTS"].s # <<>>

\* C1: for a source binding the three mandatory keys to non-empty values,
\* with no override in the environment, the first call of parse_config_file
\* returns (neither a fatal error nor an exception) and JS_ENGINES,
\* JS_ENGINE, CACHE and PORTS are populated.
C1_AsClaimed ==
  (Finished /\ calls = 1 /\ WellFormedSource /\ NoOverride)
    => (pc = "done" /\ Populated)

----------------------------------------------------------------------------
(* C2 *)

\* after the overrides the mandatory key k is empty
ResolvesEmpty(k) ==
  IF environ.em[k].set THEN environ.em[k].s = <<>>
  ELSE Evaluated.ok /\ Binds(k) /\ ~Truthy(Evaluated.ns[k], Evaluated.h)

\* C2: when the source does not bind one of LLVM_ROOT, NODE_JS and
\* BINARYEN_ROOT, whatever the environment holds, or when one of them is
\* empty after the overrides, parse_config_file ends in a fatal error and
\* normalize_config_settings has not been entered.
C2_MandatoryKeysFatal ==
  (Finished /\ \E i \in 1..Len(MandatoryKeys) :
                  ~Binds(MandatoryKeys[i]) \/ ResolvesEmpty(MandatoryKeys[i]))
    => (pc = "fatal" /\ ~normalized)

\* a key the source leaves out is given by EM_<KEY>, and the call was fatal
C2_Witness ==
  /\ pc = "fatal"
  /\ ~normalized
  /\ \E i \in 1..Len(MandatoryKeys) :
       /\ ~Binds(MandatoryKeys[i])
       /\ environ.em[MandatoryKeys[i]].set
       /\ environ.em[MandatoryKeys[i]].s # <<>>
       /\ \A j \in 1..Len(MandatoryKeys) :
            j # i => EvaluatedNonEmpty(MandatoryKeys[j])

----------------------------------------------------------------------------
(* C3 *)

\* the keys normalize_config_settings gives a default when they are unset
DefaultedKeys ==
  { "JS_ENGINES", "JS_ENGINE", "CACHE", "PORTS", "LLVM_ADD_VERSION",
    "CLANG_ADD_VERSION" }

EmptyOverride(k) == environ.em[k].set /\ environ.em[k].s = <<>>

----------------------------------------------------------------------------
(* C4 *)

\* how many entries of the list d are the token '-w'
FlagCount(d) == Cardinality({i \in 1..Len(d.items) : d.items[i] = DStr(DashW)})

\* a command list that lacks the token '-w'
Unflagged(d) == d.t = "list" /\ d.items # <<>> /\ FlagCount(d) = 0

\* C4: when the configured SPIDERMONKEY_ENGINE is a command list without
\* the token '-w', after normalization the list has that token exactly once,
\* JS_ENGINES has as many entries as before and each entry that was equal to
\* the unflagged value is the flagged value.
C4_AsClaimed ==
  (pc = "done" /\ calls = 1 /\ Unflagged(Raw["SPIDERMONKEY_ENGINE"])) =>
    /\ FlagCount(Final("SPIDERMONKEY_ENGINE")) = 1
    /\ Raw["JS_ENGINES"].t = "list" /\ Raw["JS_ENGINES"].items # <<>> =>
         /\ Len(Final("JS_ENGINES").items) = Len(Raw["JS_ENGINES"].items)
         /\ \A i \in 1..Len(Raw["JS_ENGINES"].items) :
              Raw["JS_ENGINES"].items[i] = Raw["SPIDERMONKEY_ENGINE"]
                => Final("JS_ENGINES").items[i] = Final("SPIDERMONKEY_ENGINE")

----------------------------------------------------------------------------
(* C5 *)

CommandKeys ==
  { "NODE_JS", "V8_ENGINE", "SPIDERMONKEY_ENGINE", "JS_ENGINE",
    "CLOSURE_COMPILER", "COMPILER_WRAPPER" }

IsStringList(d) ==
  d.t = "list" /\ \A i \in 1..Len(d.items) : d.items[i].t = "str"

\* C5: after normalization every command key that is set holds a list of
\* strings and every entry of JS_ENGINES and of WASM_ENGINES is a list.
C5_AsClaimed ==
  pc = "done" =>
    /\ \A k \in CommandKeys : Final(k).t = "none" \/ IsStringList(Final(k))
    /\ \A k \in {"JS_ENGINES", "WASM_ENGINES"} :
         /\ Final(k).t = "list"
         /\ \A i \in 1..Len(Final(k).items) : Final(k).items[i].t = "list"

----------------------------------------------------------------------------
(* C6 *)

\* the list form of a value: itself for a list, [d] for a scalar
ListForm(d) == IF d.t = "list" THEN d ELSE DList(<<d>>)

Supplied(k) == Binds(k) \/ environ.em[k].set

\* C6: when neither the source nor the environment supplies JS_ENGINES or
\* JS_ENGINE and NODE_JS resolves to E, after normalization JS_ENGINES is
\* the one-entry list of the list form of E and JS_ENGINE is that list form.
C6_AsClaimed ==
  (pc = "done" /\ calls = 1 /\ ~Supplied("JS_ENGINES") /\ ~Supplied("JS_ENGINE"))
    => /\ Final("JS_ENGINES") = DList(<<ListForm(Raw["NODE_JS"])>>)
       /\ Final("JS_ENGINE") = ListForm(Raw["NODE_JS"])

----------------------------------------------------------------------------
(* C9 *)

\* C9: a second call of parse_config_file on the same source and
\* environment, in a new process or in the process of the first call, ends
\* as the first did and leaves every key with the same value.
C9_SameResolution ==
  (Finished /\ runs >= 2) =>
    /\ pc = first.out
    /\ pc = "done" => DeepG(G, heap) = first.g

\* the second call ran on the globals the first had left, some of them
\* derived
C9_Witness ==
  /\ pc = "done" /\ runs = 2 /\ calls = 2
  /\ ~Supplied("JS_ENGINES") /\ ~Supplied("CACHE")
  /\ Truthy(G["SPIDERMONKEY_ENGINE"], heap)
  /\ DeepG(G, heap) = first.g

----------------------------------------------------------------------------
(* C7 *)

\* the argument that follows '--em-config' on the command line
FlagArgument == cmdline[ArgIndex(cmdline, EmConfigFlag) + 1]

\* C7: the path chosen is the first candidate that applies: the argument of
\* --em-config, then EM_CONFIG of the environment, then <root>/.emscripten,
\* .emscripten two levels above the root and ~/.emscripten if they exist,
\* and otherwise <root>/.emscripten for a writable root, ~/.emscripten for
\* another; the home shorthand of the chosen path is expanded.
C7_FirstCandidateWins ==
  pc = "located" =>
    IF HasFlag(cmdline, EmConfigFlag) THEN EM_CONFIG = expanduser(FlagArgument)
    ELSE IF environ.EM_CONFIG.set THEN EM_CONFIG = expanduser(environ.EM_CONFIG.s)
    ELSE IF fs[embedded_config].exists THEN EM_CONFIG = embedded_config
    ELSE IF fs[emsdk_embedded_config].exists THEN EM_CONFIG = emsdk_embedded_config
    ELSE IF fs[user_home_config].exists THEN EM_CONFIG = user_home_config
    ELSE IF writable THEN EM_CONFIG = embedded_config
    ELSE EM_CONFIG = user_home_config

\* every candidate applies and the command line has won
C7_Witness ==
  /\ pc = "located"
  /\ parent.depth = 0
  /\ HasFlag(cmdline, EmConfigFlag)
  /\ environ.EM_CONFIG = Set(CustomEnv)
  /\ \A p \in {embedded_config, emsdk_embedded_config, user_home_config} :
       fs[p].exists
  /\ EM_CONFIG = expanduser(TildePath)

----------------------------------------------------------------------------
(* C8 *)

GeneratorOnExistingFile ==
  /\ pc = "located"
  /\ HasFlag(argv, GenerateConfigFlag)
  /\ Exists(fs, EM_CONFIG)

\* C8: a run of the Generator on a path where a file exists ends in the
\* conflict error, and no step of any run changes a file that exists.
C8_NeverOverwrites ==
  [][ /\ GeneratorOnExistingFile => pc' = "fatal_conflict"
      /\ \A p \in AllPaths : fs[p].exists => fs'[p] = fs[p] ]_vars

\* a later run of the Generator met the file an earlier run had written,
\* would have written another text, and ended in the conflict error
C8_Witness ==
  /\ pc = "fatal_conflict"
  /\ genRuns >= 1
  /\ Binds(OtherName)
  /\ ConfigText # config_data(found)

----------------------------------------------------------------------------
(* C10 *)

\* C10: a process that reaches the evaluation of the source has set
\* EM_CONFIG of the environment to the path it chose, and a child process,
\* started without --em-config in that environment, chooses the same path.
C10_ChildrenSeeSameSource ==
  /\ pc = "parse" => environ.EM_CONFIG = Set(EM_CONFIG)
  /\ (parent.depth > 0 /\ pc # "start") =>
       /\ pc \notin {"fatal_usage", "fatal_inline", "fatal_notfound"}
       /\ EM_CONFIG = parent.path

\* the child of a process that had its path from --em-config, while the
\* environment named another file and every default file existed
C10_Witness ==
  /\ parent.depth > 0
  /\ pc = "parse"
  /\ EM_CONFIG = CustomArg
  /\ parent.path = CustomArg
  /\ fs[embedded_config].exists
====
